---- MODULE Spec2Model ----
(***************************************************************************)
(* Session orchestration and speech I/O coordination of the KET speaking   *)
(* coach: the turn-taking state machine of TestSession.tsx, the audio      *)
(* player / synthesis gateway of geminiService.ts and the answer boxes     *)
(* (StudentBox) as far as they drive the state machine.                    *)
(*                                                                         *)
(* React semantics: a handler runs against the values of the render that   *)
(* created it (its closure); the setState calls it makes are applied when  *)
(* the handler returns, together with the effects of the re-render.  One   *)
(* action below is one handler plus that re-render.  Unprimed variables    *)
(* are therefore the closure values, primed ones the committed state.      *)
(***************************************************************************)
EXTENDS Integers, Sequences, FiniteSets, TLC

\* ------------------------------------------------------------ bounds ----
MaxQuestions == 2
MaxRequests == 2
MaxSegments == 3
MaxResults == 2
MaxPcm == 3
MaxEvaluations == 2

\* --------------------------------------------------------- constants ----
NoAnswer == ""
Texts == {"I like football", "Me too"}
Students == {"A", "B"}
QIdx == 0..(MaxQuestions - 1)
ReqIds == 1..MaxRequests
ActivePhases == {"examiner_speaking", "student_a_turn", "student_b_turn"}
Phases == ActivePhases \cup {"evaluating", "results"}
Callers == {"auto", "button"}

VARIABLES
    numQuestions,        \* plan.questions.length
    currentQuestionIdx,  \* useState(0)
    phase,               \* useState('examiner_speaking')
    answersA,            \* sessionData.studentA.answers
    answersB,            \* sessionData.studentB.answers
    isTTSLoading,
    autoplayBlocked,
    report,              \* "null" | "remote" | "noanswers" | "fallback"
    isFinishing,
    confirmExit,
    autoTimer,           \* the 500 ms auto-play timer is pending
    exitTimers,          \* number of pending 3 s confirm-reset timers
    recSupported,        \* platform offers SpeechRecognition
    synthSupported,      \* platform offers window.speechSynthesis
    pauseThrows,         \* the platform's media handle throws on pause()
    responseIsNull,      \* the evaluation response's text is the JSON text null
    isManualMode,        \* per answer box
    latestTtsRequestId,
    currentAudio,        \* request id whose Audio element is held, 0 = null
    audioCache,          \* texts (question indexes) with a cached blob URL
    reqs,                \* the playTextToSpeech invocations
    lastReturn,          \* the call that returned last: its id, value, staleness
    playing,             \* Audio elements (by request id) that are not paused
    speaking,            \* the fallback voice is speaking
    evalCalls,           \* records handed to evaluateSession, in order
    evalPending,         \* the evaluateSession promise has not settled
    synthCalls,          \* per text, the remote synthesis calls issued so far
    box,                 \* Tom's StudentBox instance of each question
    rec,                 \* the recognition engine's side of each instance
    heard,               \* the final segments reported for the current question
    savedAnswer,         \* the savedAnswer prop of Tom's box
    pcmData,             \* the PCM bytes of a synthesis response
    wav                  \* the container createWavBlob made of them

sessionVars == <<numQuestions, currentQuestionIdx, phase, answersA, answersB, report, isFinishing>>
uiVars == <<isTTSLoading, autoplayBlocked, confirmExit, autoTimer, exitTimers, isManualMode>>
platformVars == <<recSupported, synthSupported, pauseThrows, responseIsNull>>
playerVars == <<latestTtsRequestId, currentAudio, audioCache, reqs, lastReturn, playing, speaking>>
evalVars == <<evalCalls, evalPending>>
boxVars == <<box, rec, heard, savedAnswer>>
wavVars == <<pcmData, wav>>
vars == <<sessionVars, uiVars, platformVars, playerVars, evalVars, synthCalls, boxVars, wavVars>>

\* ------------------------------------------------------ WAV container ---
\* Gemini TTS is 24kHz, 1 channel, 16-bit PCM
SAMPLE_RATE == 24000

numChannels == 1

bitsPerSample == 16

headerSize == 44

byteRate == (SAMPLE_RATE * numChannels * bitsPerSample) \div 8

blockAlign == (numChannels * bitsPerSample) \div 8

\* the byte values a payload is drawn from
PcmBytes == {0, 1, 128, 255}

\* the Uint8Array a synthesis response decodes to
Payloads == UNION {[1..n -> PcmBytes] : n \in 0..MaxPcm}

\* writeString: the char codes of the four chunk tags
TagRIFF == <<82, 73, 70, 70>>

TagWAVE == <<87, 65, 86, 69>>

TagFmt == <<102, 109, 116, 32>>

TagData == <<100, 97, 116, 97>>

\* 256 ^ k
RECURSIVE Pow256(_)
Pow256(k) == IF k = 0 THEN 1 ELSE 256 * Pow256(k - 1)

\* variant: the DataView writes most significant byte first
LittleEndian_BigEndian(value, width) ==
    [i \in 1..width |-> (value \div Pow256(width - i)) % 256]

\* view.setUint16 / view.setUint32 with littleEndian = true (the values
\* written are lengths below 2^30, which a 32-bit field holds unwrapped)
LittleEndian(value, width) ==
    [i \in 1..width |-> (value \div Pow256(i - 1)) % 256]

\* createWavBlob: the bytes of the ArrayBuffer the Blob is made of
createWavBlob(pcm) ==
    LET dataSize == Len(pcm) IN
    TagRIFF \o LittleEndian(36 + dataSize, 4) \o TagWAVE
    \o TagFmt \o LittleEndian(16, 4) \o LittleEndian(1, 2)
    \o LittleEndian(numChannels, 2) \o LittleEndian(SAMPLE_RATE, 4)
    \o LittleEndian(byteRate, 4) \o LittleEndian(blockAlign, 2)
    \o LittleEndian(bitsPerSample, 2)
    \o TagData \o LittleEndian(dataSize, 4)
    \o pcm

\* no synthesis response is being converted
NoWav == pcmData = <<>> /\ wav = <<>>

\* ------------------------------------------------------------ helpers ---
IdleReq == [pc |-> "idle", text |-> 0, caller |-> "auto"]

NoReturn == [id |-> 0, ret |-> "none", stale |-> FALSE]

\* plan.questions[currentQuestionIdx] is defined
currentQuestion == currentQuestionIdx < numQuestions

\* the closure's sessionData
sessionData == [answersA |-> answersA, answersB |-> answersB]

EmptyAnswers == [q \in QIdx |-> NoAnswer]

\* Object.keys(answers)
Keys(answers) == {q \in QIdx : answers[q] # NoAnswer}

\* variant: Tom's box never shows the saved answer
hasTomAnswered_Never == FALSE

hasTomAnswered == answersA[currentQuestionIdx] # NoAnswer

hasBellaAnswered == answersB[currentQuestionIdx] # NoAnswer

\* the isManualMode every StudentBox starts with when it mounts
MountManualMode == [s \in Students |-> ~recSupported]

\* ------------------------------------------------- audio player --------
\* isAudioPlaying(): !!currentAudio && !currentAudio.paused
isAudioPlaying == currentAudio # 0 /\ currentAudio \in playing

\* variant: the held element is dropped without being paused
StoppedPlaying_NoPause(pl, cur) == pl

\* stopAllAudio, media part: currentAudio.pause() silences the held element
StoppedPlaying(pl, cur) == pl \ {cur}

\* currentAudio.pause() throws: the catch block of stopAllAudio is entered
\* before the element is silenced and before currentAudio = null
PauseFails == currentAudio # 0 /\ pauseThrows

\* the elements still playing when stopAllAudio returns
PlayingAfterStop == IF PauseFails THEN playing ELSE StoppedPlaying(playing, currentAudio)

\* currentAudio when stopAllAudio returns
HeldAfterStop == IF PauseFails THEN currentAudio ELSE 0

\* stopAllAudio: pause and drop the held element, cancel the fallback voice
stopAllAudio ==
    /\ playing' = PlayingAfterStop
    /\ currentAudio' = HeldAfterStop
    /\ speaking' = FALSE

\* "stopAllAudio(); new Audio(url); currentAudio = audio; audio.play()":
\* the element starts (paused = false) unless the autoplay policy refuses
StartPlayback(id, allowed) ==
    /\ playing' = PlayingAfterStop \cup (IF allowed THEN {id} ELSE {})
    /\ currentAudio' = id
    /\ speaking' = FALSE

\* the value a resumed call returns after "await audio.play()": the promise
\* is fulfilled when playback began, rejected when refused or paused first
PlayOutcome(id, pl) == IF id \in pl THEN "true" ELSE "false"

\* variant: a response is never taken for stale
IsStale_Never(id) == FALSE

\* requestId !== latestTtsRequestId
IsStale(id) == id # latestTtsRequestId

\* variant: the callers have no finally clause
LoadingAfterReturn_NoFinally == isTTSLoading

\* finally { setIsTTSLoading(false) } of every caller
LoadingAfterReturn == FALSE

\* variant: the automatic prompt ignores the returned value
CallerContinuation_NoBlock(caller, ret) ==
    /\ isTTSLoading' = LoadingAfterReturn
    /\ UNCHANGED autoplayBlocked

\* what the caller of playTextToSpeech does with the returned value
CallerContinuation(caller, ret) ==
    /\ isTTSLoading' = LoadingAfterReturn
    /\ autoplayBlocked' = IF caller = "auto" /\ ret = "false" THEN TRUE ELSE autoplayBlocked

\* variant: the cache is never consulted
IsCached_Never(text) == FALSE

\* audioCache.has(text)
IsCached(text) == text \in audioCache

\* variant: the counter is read without being advanced once it is set
NextRequestId_NotAdvanced == IF latestTtsRequestId = 0 THEN 1 ELSE latestTtsRequestId

\* ++latestTtsRequestId
NextRequestId == latestTtsRequestId + 1

\* the call itself, up to its first await
playTextToSpeech(text, caller) ==
    /\ latestTtsRequestId < MaxRequests
    /\ latestTtsRequestId' = NextRequestId
    /\ LET id == NextRequestId IN
       IF IsCached(text)
       THEN /\ \E allowed \in BOOLEAN : StartPlayback(id, allowed)
            /\ reqs' = [reqs EXCEPT ![id] = [pc |-> "play", text |-> text, caller |-> caller]]
            /\ UNCHANGED synthCalls
       ELSE /\ reqs' = [reqs EXCEPT ![id] = [pc |-> "fetch", text |-> text, caller |-> caller]]
            /\ synthCalls' = [synthCalls EXCEPT ![text] = @ + 1]
            /\ UNCHANGED <<currentAudio, playing, speaking>>
    /\ UNCHANGED <<audioCache, lastReturn>>

\* the call of request id returns ret to its caller
Return(id, ret) ==
    /\ reqs' = [reqs EXCEPT ![id] = [pc |-> "done", text |-> 0, caller |-> "auto"]]
    /\ lastReturn' = [id |-> id, ret |-> ret, stale |-> IsStale(id)]
    /\ CallerContinuation(reqs[id].caller, ret)

\* the remote synthesis call of request id returned audio data
SynthesisReturns(id) ==
    /\ reqs[id].pc = "fetch"
    /\ IF IsStale(id)
       THEN /\ Return(id, "false")
            /\ UNCHANGED <<currentAudio, playing, speaking, audioCache>>
       ELSE /\ audioCache' = audioCache \cup {reqs[id].text}
            /\ \E allowed \in BOOLEAN : StartPlayback(id, allowed)
            /\ reqs' = [reqs EXCEPT ![id].pc = "play"]
            /\ UNCHANGED <<isTTSLoading, autoplayBlocked, lastReturn>>
    /\ UNCHANGED <<latestTtsRequestId, sessionVars, confirmExit, autoTimer, exitTimers, isManualMode, platformVars, evalVars>>
    /\ UNCHANGED <<synthCalls, boxVars, wavVars>>

\* variant: the catch block does not compare the request id
UsesFallback_IgnoresStaleness(id) == synthSupported

\* the catch block reaches speechSynthesis.speak: the request is still the
\* latest and window.speechSynthesis exists
UsesFallback(id) == ~IsStale(id) /\ synthSupported

\* the remote synthesis call failed or returned no audio data: catch block
SynthesisFails(id) ==
    /\ reqs[id].pc = "fetch"
    /\ IF ~UsesFallback(id)
       THEN /\ Return(id, "false")
            /\ UNCHANGED <<currentAudio, playing, speaking>>
       ELSE \E spoken \in BOOLEAN :
            /\ playing' = PlayingAfterStop
            /\ currentAudio' = HeldAfterStop
            /\ speaking' = spoken
            /\ Return(id, IF spoken THEN "true" ELSE "false")
    /\ UNCHANGED <<latestTtsRequestId, audioCache, sessionVars, confirmExit, autoTimer, exitTimers, isManualMode, platformVars, evalVars>>
    /\ UNCHANGED <<synthCalls, boxVars, wavVars>>

\* "await audio.play()" of request id settles
PlaybackSettles(id) ==
    /\ reqs[id].pc = "play"
    /\ Return(id, PlayOutcome(id, playing))
    /\ UNCHANGED <<latestTtsRequestId, currentAudio, audioCache, playing, speaking, sessionVars, confirmExit, autoTimer, exitTimers, isManualMode, platformVars, evalVars>>
    /\ UNCHANGED <<synthCalls, boxVars, wavVars>>

\* an element plays to its end (the onended handler is unreachable code)
AudioEnds(id) ==
    /\ id \in playing
    /\ reqs[id].pc = "done"
    /\ playing' = playing \ {id}
    /\ UNCHANGED <<latestTtsRequestId, currentAudio, audioCache, reqs, lastReturn, speaking, sessionVars, uiVars, platformVars, evalVars>>
    /\ UNCHANGED <<synthCalls, boxVars, wavVars>>

\* the fallback utterance is spoken to its end
UtteranceEnds ==
    /\ speaking
    /\ speaking' = FALSE
    /\ UNCHANGED <<latestTtsRequestId, currentAudio, audioCache, reqs, lastReturn, playing, sessionVars, uiVars, platformVars, evalVars>>
    /\ UNCHANGED <<synthCalls, boxVars, wavVars>>

\* ------------------------------------------- turn-taking state machine --
\* the render falls through to the session view: neither
\* (phase === 'results' && report) nor phase === 'evaluating'
SessionViewShown == phase \in ActivePhases \/ (phase = "results" /\ report = "null")

\* the auto-play effect, deps [currentQuestion, phase]: its cleanup clears a
\* pending timer; when it runs in examiner_speaking it clears the blocked
\* flag and arms the 500 ms timer
AutoPlayEffect ==
    IF phase' = phase /\ currentQuestionIdx' = currentQuestionIdx
    THEN UNCHANGED <<autoTimer, autoplayBlocked>>
    ELSE IF phase' = "examiner_speaking" /\ currentQuestionIdx' < numQuestions
         THEN autoTimer' = TRUE /\ autoplayBlocked' = FALSE
         ELSE autoTimer' = FALSE /\ UNCHANGED autoplayBlocked

\* StudentBox key={name-questionId}: a new question mounts fresh boxes; the
\* evaluating and results views mount none
RemountBoxes ==
    IF currentQuestionIdx' = currentQuestionIdx /\ phase' \in ActivePhases
    THEN UNCHANGED isManualMode
    ELSE isManualMode' = MountManualMode

\* the 500 ms timer fires: playAudio()
AutoPlay ==
    /\ autoTimer
    /\ autoTimer' = FALSE
    /\ isTTSLoading' = TRUE
    /\ playTextToSpeech(currentQuestionIdx, "auto")
    /\ UNCHANGED <<autoplayBlocked, confirmExit, exitTimers, isManualMode, sessionVars, platformVars, evalVars>>
    /\ UNCHANGED <<boxVars, wavVars>>

\* "Tap to Play Question"
handleManualPlay ==
    /\ SessionViewShown
    /\ ~isTTSLoading /\ autoplayBlocked
    /\ autoplayBlocked' = FALSE
    /\ isTTSLoading' = TRUE
    /\ playTextToSpeech(currentQuestionIdx, "button")
    /\ UNCHANGED <<autoTimer, confirmExit, exitTimers, isManualMode, sessionVars, platformVars, evalVars>>
    /\ UNCHANGED <<boxVars, wavVars>>

\* the Replay button
Replay ==
    /\ SessionViewShown
    /\ ~isTTSLoading /\ ~autoplayBlocked
    /\ isTTSLoading' = TRUE
    /\ playTextToSpeech(currentQuestionIdx, "button")
    /\ UNCHANGED <<autoplayBlocked, autoTimer, confirmExit, exitTimers, isManualMode, sessionVars, platformVars, evalVars>>
    /\ UNCHANGED <<boxVars, wavVars>>

\* the "Stop Audio" header button (a box's microphone button makes the same
\* stopAllAudio call when it starts listening, in that box's own turn)
StopAudioButton ==
    /\ SessionViewShown
    /\ stopAllAudio
    /\ UNCHANGED <<latestTtsRequestId, audioCache, reqs, lastReturn, sessionVars, uiVars, platformVars, evalVars>>
    /\ UNCHANGED <<synthCalls, boxVars, wavVars>>

\* "Start Answering"
handleExaminerDone ==
    /\ phase = "examiner_speaking"
    /\ ~isTTSLoading /\ ~autoplayBlocked
    /\ stopAllAudio
    /\ phase' = "student_a_turn"
    /\ UNCHANGED <<numQuestions, currentQuestionIdx, answersA, answersB, report, isFinishing>>
    /\ AutoPlayEffect
    /\ UNCHANGED <<isTTSLoading, confirmExit, exitTimers, isManualMode>>
    /\ UNCHANGED <<latestTtsRequestId, audioCache, reqs, lastReturn, platformVars, evalVars>>
    /\ UNCHANGED <<synthCalls, boxVars, wavVars>>

\* the Type / Voice toggle in the header of the active box
SetManualMode(s) ==
    /\ phase = (IF s = "A" THEN "student_a_turn" ELSE "student_b_turn")
    /\ ~(IF s = "A" THEN hasTomAnswered ELSE hasBellaAnswered)
    /\ isManualMode' = [isManualMode EXCEPT ![s] = ~isManualMode[s]]
    /\ UNCHANGED <<isTTSLoading, autoplayBlocked, confirmExit, autoTimer, exitTimers>>
    /\ UNCHANGED <<sessionVars, platformVars, playerVars, evalVars>>
    /\ UNCHANGED <<synthCalls, boxVars, wavVars>>

\* the box's submit control can be pressed: no answer shown yet, and either
\* the manual-mode button (which has no disabled attribute) or the
\* voice-mode button (disabled outside the box's own turn)
CanSubmit(s) ==
    /\ SessionViewShown
    /\ ~(IF s = "A" THEN hasTomAnswered ELSE hasBellaAnswered)
    /\ \/ isManualMode[s]
       \/ phase = (IF s = "A" THEN "student_a_turn" ELSE "student_b_turn")

\* variant: the evaluator is handed a fresh, empty record
EvaluationRequest_EmptyRecord(sd, via) ==
    [record |-> [answersA |-> EmptyAnswers, answersB |-> EmptyAnswers], via |-> via]

\* the argument of evaluateSession(plan, sessionData)
EvaluationRequest(sd, via) == [record |-> sd, via |-> via]

\* variant: the session is finished without the stopAllAudio call
finishSession_NoStop(via) ==
    /\ Len(evalCalls) < MaxEvaluations
    /\ UNCHANGED <<currentAudio, playing, speaking>>
    /\ phase' = "evaluating"
    /\ isFinishing' = TRUE
    /\ evalCalls' = Append(evalCalls, EvaluationRequest(sessionData, via))
    /\ evalPending' = TRUE

\* finishSession, up to its await
finishSession(via) ==
    /\ Len(evalCalls) < MaxEvaluations
    /\ stopAllAudio
    /\ phase' = "evaluating"
    /\ isFinishing' = TRUE
    /\ evalCalls' = Append(evalCalls, EvaluationRequest(sessionData, via))
    /\ evalPending' = TRUE

\* handleSubmit of Tom's box -> handleStudentAComplete(finalText.trim());
\* text is the trimmed, non-blank text the box composed (a blank one only
\* sets the box's error message and reaches no handler of the session)
handleStudentAComplete(text) ==
    /\ CanSubmit("A")
    /\ answersA' = [answersA EXCEPT ![currentQuestionIdx] = text]
    /\ phase' = "student_b_turn"
    /\ UNCHANGED <<numQuestions, currentQuestionIdx, answersB, report, isFinishing>>
    /\ AutoPlayEffect
    /\ RemountBoxes
    /\ UNCHANGED <<isTTSLoading, confirmExit, exitTimers>>
    /\ UNCHANGED <<platformVars, playerVars, evalVars>>
    /\ UNCHANGED <<synthCalls, boxVars, wavVars>>

\* handleSubmit of Bella's box -> handleStudentBComplete(finalText.trim())
\* -> goToNextQuestion; finishSession runs in the same closure, before the
\* queued setSessionData is applied
handleStudentBComplete(text) ==
    /\ CanSubmit("B")
    /\ answersB' = [answersB EXCEPT ![currentQuestionIdx] = text]
    /\ IF currentQuestionIdx < numQuestions - 1
       THEN /\ currentQuestionIdx' = currentQuestionIdx + 1
            /\ phase' = "examiner_speaking"
            /\ UNCHANGED <<isFinishing, evalVars, currentAudio, playing, speaking>>
       ELSE /\ finishSession("lastAnswer")
            /\ UNCHANGED currentQuestionIdx
    /\ AutoPlayEffect
    /\ RemountBoxes
    /\ UNCHANGED <<numQuestions, answersA, report>>
    /\ UNCHANGED <<isTTSLoading, confirmExit, exitTimers>>
    /\ UNCHANGED <<latestTtsRequestId, audioCache, reqs, lastReturn, platformVars>>
    /\ UNCHANGED <<synthCalls, boxVars, wavVars>>

\* variant: no confirmation step
MustArmFirst_NoConfirm == FALSE

\* if (!confirmExit): the first press only arms
MustArmFirst == ~confirmExit

\* "Finish & Report"
handleEarlyFinish ==
    /\ SessionViewShown
    /\ ~isFinishing
    /\ IF MustArmFirst
       THEN /\ confirmExit' = TRUE
            /\ exitTimers' = exitTimers + 1
            /\ UNCHANGED <<sessionVars, isTTSLoading, autoplayBlocked, autoTimer, isManualMode, playerVars, evalVars>>
       ELSE /\ finishSession("earlyFinish")
            /\ UNCHANGED <<numQuestions, currentQuestionIdx, answersA, answersB, report>>
            /\ AutoPlayEffect
            /\ RemountBoxes
            /\ UNCHANGED <<isTTSLoading, confirmExit, exitTimers>>
            /\ UNCHANGED <<latestTtsRequestId, audioCache, reqs, lastReturn>>
    /\ UNCHANGED platformVars
    /\ UNCHANGED <<synthCalls, boxVars, wavVars>>

\* setTimeout(() => setConfirmExit(false), 3000) fires
ConfirmWindowElapses ==
    /\ exitTimers > 0
    /\ exitTimers' = exitTimers - 1
    /\ confirmExit' = FALSE
    /\ UNCHANGED <<isTTSLoading, autoplayBlocked, autoTimer, isManualMode>>
    /\ UNCHANGED <<sessionVars, platformVars, playerVars, evalVars>>
    /\ UNCHANGED <<synthCalls, boxVars, wavVars>>

\* evaluateSession: no remote call when neither participant has an answer
NeedsRemoteCall(record) == Keys(record.answersA) # {} \/ Keys(record.answersB) # {}

\* return JSON.parse(text) as FullReport
ParsedReport == IF responseIsNull THEN "null" ELSE "remote"

\* variant: the catch branch leaves the phase alone
PhaseAfterEvaluation_StallOnFailure(ok) == IF ok THEN "results" ELSE "evaluating"

\* setPhase after the awaited evaluation, in the try and in the catch branch
PhaseAfterEvaluation(ok) == "results"

\* the evaluateSession promise settles: fulfilled with a report object (the
\* fixed one when no remote call was needed) or rejected (remote call only)
EvaluationSettles(ok) ==
    /\ evalPending
    /\ ok \/ NeedsRemoteCall(evalCalls[Len(evalCalls)].record)
    /\ report' = IF ~ok THEN "fallback"
                 ELSE IF NeedsRemoteCall(evalCalls[Len(evalCalls)].record) THEN ParsedReport
                 ELSE "noanswers"
    /\ phase' = PhaseAfterEvaluation(ok)
    /\ isFinishing' = FALSE
    /\ evalPending' = FALSE
    /\ UNCHANGED <<numQuestions, currentQuestionIdx, answersA, answersB, evalCalls>>
    /\ UNCHANGED <<uiVars, platformVars, playerVars>>
    /\ UNCHANGED <<synthCalls, boxVars, wavVars>>

\* ------------------------------------------------ transcript assembly --
\* A string is the sequence of its tokens: words and single spaces.
Space == " "

\* what Tom says, segment by segment, and may type, while question q is up
Vocabulary ==
    << <<"Hello", "there", "friend", "indeed">>,
       <<"Yes", "we", "can", "too">>,
       <<"No", "never", "mind", "that">> >>

Word(q, k) == Vocabulary[q + 1][k]

\* the buffers Tom may type: nothing, a blank, a word he does not say
Typeable(q) == {<<>>, <<Space>>, <<Space, Word(q, 4), Space>>}

RECURSIVE TrimLeft(_)
TrimLeft(str) == IF str # <<>> /\ Head(str) = Space THEN TrimLeft(Tail(str)) ELSE str

RECURSIVE TrimRight(_)
TrimRight(str) ==
    IF str # <<>> /\ str[Len(str)] = Space THEN TrimRight(SubSeq(str, 1, Len(str) - 1)) ELSE str

\* String.prototype.trim
Trim(str) == TrimRight(TrimLeft(str))

\* event.error values
ErrorCodes == {"no-speech", "aborted", "not-allowed", "audio-capture", "network", "bad-grammar"}

\* a StudentBox instance right after useState / useRef, before its effect
FreshBox ==
    [ life |-> "unborn", isRecording |-> FALSE, transcript |-> <<>>,
      interimTranscript |-> <<>>, errorMsg |-> "null", isManualMode |-> FALSE,
      manualText |-> <<>>, fullTranscriptRef |-> <<>> ]

\* recognitionInstanceRef.current === null; n counts the segments heard
NoRecognition == [st |-> "none", results |-> <<>>, n |-> 0]

\* sessionData.answersA[currentQuestion.id] is undefined
Unanswered == [given |-> FALSE, text |-> <<>>]

NoBoxes ==
    /\ box = [q \in QIdx |-> FreshBox]
    /\ rec = [q \in QIdx |-> NoRecognition]
    /\ heard = <<>>
    /\ savedAnswer = Unanswered

\* isMountedRef.current
isMountedRef(q) == box[q].life = "mounted"

\* the props TestSession passes to Tom's box
hasAnswered == savedAnswer.given

disabled(q) == ~(phase = "student_a_turn" /\ currentQuestionIdx = q)

\* the mount effect: reset, then the capability check
MountedBox ==
    [FreshBox EXCEPT !.life = "mounted",
                     !.isManualMode = ~recSupported,
                     !.errorMsg = IF recSupported THEN "null" ELSE "Voice not supported. Manual mode."]

\* variant: the box is not keyed by the question, the instance lives on
NewInstance_SameBox(b) == b

\* key={`tom-${id}`}: a new question gets a new instance
NewInstance(b) == MountedBox

\* the engine holds a listening pass that has not begun to end
Running(r) == r.st \in {"starting", "listening", "stopping"}

\* the engine can still call a handler
Live(r) == r.st \notin {"none", "idle"}

\* recognition.abort()
Aborted(r) == IF Running(r) THEN [r EXCEPT !.st = "aborting"] ELSE r

\* recognition.stop()
Stopped(r) ==
    IF r.st \in {"starting", "listening"} THEN [r EXCEPT !.st = "stopping"] ELSE r

\* the effect cleanup: isMountedRef.current = false; the component state is
\* gone and the refs are out of reach of everything but the engine's handlers
TornDown == [FreshBox EXCEPT !.life = "unmounted"]

\* the cleanup's abort(): what the engine had heard is of no further account,
\* it may still have one batch queued
AbortedForGood(r) ==
    [st |-> IF Running(r) THEN "aborting" ELSE r.st, results |-> <<>>, n |-> 0]

\* the boxes after the session moved to question index idx and phase ph
Remounted(idx, ph) ==
    [q \in QIdx |->
        IF ph \in ActivePhases /\ q = idx
        THEN (IF q = currentQuestionIdx THEN box[q] ELSE NewInstance(box[currentQuestionIdx]))
        ELSE (IF box[q].life = "mounted" THEN TornDown ELSE box[q])]

RecognitionAfterRemount(idx, ph) ==
    [q \in QIdx |->
        IF box[q].life = "mounted" /\ ~(ph \in ActivePhases /\ q = idx)
        THEN (IF Live(rec[q]) THEN AbortedForGood(rec[q]) ELSE NoRecognition)
        ELSE rec[q]]

\* the loop of onresult over event.results: newFinal / newInterim
RECURSIVE Collect(_, _)
Collect(results, final) ==
    IF results = <<>> THEN <<>>
    ELSE (IF Head(results).isFinal = final THEN <<Head(results).transcript>> ELSE <<>>)
         \o Collect(Tail(results), final)

\* (fullTranscriptRef.current + " " + newFinal).trim()
Accumulated(full, newFinal) == Trim(full \o <<Space>> \o newFinal)

\* variant: the handlers do not look at isMountedRef
Ignores_Never(b) == FALSE

\* "if (!isMountedRef.current) return" of the recognition handlers
Ignores(b) == b.life # "mounted"

\* recognition.onresult
OnResult(b, results) ==
    LET newFinal == Collect(results, TRUE)
        newInterim == Collect(results, FALSE)
        full == IF newFinal # <<>> THEN Accumulated(b.fullTranscriptRef, newFinal)
                ELSE b.fullTranscriptRef
    IN IF Ignores(b) THEN b
       ELSE [b EXCEPT !.fullTranscriptRef = full,
                      !.transcript = IF newFinal # <<>> THEN full ELSE b.transcript,
                      !.interimTranscript = newInterim]

\* recognition.onstart
OnStart(b) ==
    IF Ignores(b) THEN b ELSE [b EXCEPT !.isRecording = TRUE, !.errorMsg = "null"]

\* variant: every error code is shown to the user
IsBenign_Never(code) == FALSE

\* event.error === 'no-speech' || event.error === 'aborted'
IsBenign(code) == code \in {"no-speech", "aborted"}

\* the status message onerror shows for an error code
ErrorMessage(code) ==
    CASE code = "not-allowed" -> "Mic blocked. Check settings."
      [] code = "audio-capture" -> "No mic found."
      [] code = "network" -> "Network error."
      [] OTHER -> "Error: " \o code

\* recognition.onerror
OnError(b, code) ==
    IF Ignores(b) THEN b
    ELSE IF IsBenign(code) THEN [b EXCEPT !.isRecording = FALSE]
    ELSE [b EXCEPT !.isRecording = FALSE, !.errorMsg = ErrorMessage(code)]

\* recognition.onend
OnEnd(b) ==
    IF Ignores(b) THEN b ELSE [b EXCEPT !.isRecording = FALSE]

\* the final segments a batch reports for the first time, in order
RECURSIVE NewFinals(_, _, _)
NewFinals(old, new, i) ==
    IF i > Len(new) THEN <<>>
    ELSE (IF new[i].isFinal /\ ~(i <= Len(old) /\ old[i].isFinal) THEN <<new[i].transcript>> ELSE <<>>)
         \o NewFinals(old, new, i + 1)

\* the result lists the engine may report next: one more segment heard
\* (interim or final), one interim segment made final, or all of them
NextResults(q) ==
    LET r == rec[q].results IN
    {Append(r, [transcript |-> Word(q, rec[q].n + 1), isFinal |-> f]) :
        f \in {g \in BOOLEAN : rec[q].n < MaxSegments /\ Len(r) < MaxResults}}
    \cup {[r EXCEPT ![i].isFinal = TRUE] : i \in {j \in 1..Len(r) : ~r[j].isFinal}}
    \cup {[i \in 1..Len(r) |-> [r[i] EXCEPT !.isFinal = TRUE]] :
            x \in {y \in {0} : \E j \in 1..Len(r) : ~r[j].isFinal}}

boxFrame == UNCHANGED <<uiVars, platformVars, playerVars, evalVars, synthCalls, wavVars, numQuestions, answersA, answersB, report, isFinishing>>

\* the engine reports a batch of results to onresult; one batch that was
\* already queued may still be delivered after abort()
EngineResult(q) ==
    /\ rec[q].st \in {"listening", "stopping", "aborting"}
    /\ \E results \in NextResults(q) :
        /\ rec' = IF rec[q].st = "aborting"
                   THEN [rec EXCEPT ![q].st = "drained"]
                   ELSE [rec EXCEPT ![q].results = results,
                                    ![q].n = IF Len(results) > Len(rec[q].results) THEN @ + 1 ELSE @]
        /\ heard' = IF q = currentQuestionIdx /\ rec[q].st # "aborting"
                    THEN heard \o NewFinals(rec[q].results, results, 1) ELSE heard
        /\ box' = [box EXCEPT ![q] = OnResult(@, results)]
    /\ UNCHANGED <<phase, currentQuestionIdx, savedAnswer>>
    /\ boxFrame

\* the engine signals that it listens
EngineStarts(q) ==
    /\ rec[q].st = "starting"
    /\ rec' = [rec EXCEPT ![q].st = "listening"]
    /\ box' = [box EXCEPT ![q] = OnStart(@)]
    /\ UNCHANGED <<phase, currentQuestionIdx, heard, savedAnswer>>
    /\ boxFrame

\* the engine reports an error; its end signal follows
EngineError(q, code) ==
    /\ \/ Running(rec[q]) /\ code # "aborted"
       \/ rec[q].st \in {"aborting", "drained"} /\ code = "aborted"
    /\ rec' = [rec EXCEPT ![q].st = "failed"]
    /\ box' = [box EXCEPT ![q] = OnError(@, code)]
    /\ UNCHANGED <<phase, currentQuestionIdx, heard, savedAnswer>>
    /\ boxFrame

\* the engine signals the end of the listening pass
EngineEnds(q) ==
    /\ rec[q].st \in {"listening", "stopping", "aborting", "drained", "failed"}
    /\ rec' = [rec EXCEPT ![q] = IF box[q].life = "unmounted" THEN NoRecognition
                                 ELSE [@ EXCEPT !.st = "idle", !.results = <<>>]]
    /\ box' = [box EXCEPT ![q] = OnEnd(@)]
    /\ UNCHANGED <<phase, currentQuestionIdx, heard, savedAnswer>>
    /\ boxFrame

\* recognition.start(): throws unless the engine is at rest
StartThrows(r) == r.st # "idle"

\* variant: a new pass starts from an empty transcript
Resumed_ClearsAll(b) ==
    [b EXCEPT !.errorMsg = "null", !.interimTranscript = <<>>,
              !.transcript = <<>>, !.fullTranscriptRef = <<>>]

\* handleMicClick when a pass is started: setErrorMsg(null),
\* setInterimTranscript("")
Resumed(b) == [b EXCEPT !.errorMsg = "null", !.interimTranscript = <<>>]

\* the microphone button of Tom's box
handleMicClick(q) ==
    /\ isMountedRef(q) /\ ~hasAnswered /\ ~box[q].isManualMode /\ ~disabled(q)
    /\ IF box[q].isRecording
       THEN /\ rec' = [rec EXCEPT ![q] = Stopped(@)]
            /\ UNCHANGED box
       ELSE IF ~recSupported
       THEN /\ box' = [box EXCEPT ![q].errorMsg = "null", ![q].isManualMode = TRUE]
            /\ UNCHANGED rec
       ELSE LET r == IF rec[q].st = "none" THEN [rec[q] EXCEPT !.st = "idle"] ELSE rec[q] IN
            IF StartThrows(r)
            THEN /\ rec' = [rec EXCEPT ![q] = r]
                 /\ box' = [box EXCEPT ![q].interimTranscript = <<>>,
                                       ![q].isRecording = FALSE,
                                       ![q].isManualMode = TRUE,
                                       ![q].errorMsg = "Device error. Switched to manual."]
            ELSE /\ rec' = [rec EXCEPT ![q] = [r EXCEPT !.st = "starting"]]
                 /\ box' = [box EXCEPT ![q] = Resumed(@)]
    /\ UNCHANGED <<phase, currentQuestionIdx, heard, savedAnswer>>
    /\ boxFrame

\* the "Type" / "Voice" switch in the header of the active box
ToggleInputMode(q) ==
    /\ isMountedRef(q) /\ ~hasAnswered /\ ~disabled(q)
    /\ box' = [box EXCEPT ![q].isManualMode = ~@]
    /\ UNCHANGED <<phase, currentQuestionIdx, rec, heard, savedAnswer>>
    /\ boxFrame

\* the textarea's onChange
TypeAnswer(q, text) ==
    /\ isMountedRef(q) /\ ~hasAnswered /\ box[q].isManualMode
    /\ text # box[q].manualText
    /\ box' = [box EXCEPT ![q].manualText = text]
    /\ UNCHANGED <<phase, currentQuestionIdx, rec, heard, savedAnswer>>
    /\ boxFrame

\* hasText
hasText(b) ==
    IF b.isManualMode THEN b.manualText # <<>>
    ELSE b.transcript # <<>> \/ b.interimTranscript # <<>>

\* the Submit button is rendered and enabled
SubmitEnabled(q) ==
    /\ isMountedRef(q) /\ ~hasAnswered
    /\ box[q].isManualMode \/ (~disabled(q) /\ (hasText(box[q]) \/ box[q].interimTranscript # <<>>))

\* variant: the typed buffer does not replace the transcript
FinalText_AlwaysTranscript(b) ==
    IF b.interimTranscript # <<>>
    THEN Trim(b.fullTranscriptRef \o <<Space>> \o b.interimTranscript)
    ELSE b.fullTranscriptRef

\* finalText of handleSubmit, before the blank check
FinalText(b) ==
    LET base == IF b.isManualMode THEN b.manualText ELSE b.fullTranscriptRef IN
    IF b.interimTranscript # <<>> /\ ~b.isManualMode
    THEN Trim(base \o <<Space>> \o b.interimTranscript)
    ELSE base

\* variant: the blank check is skipped
IsBlank_Never(text) == FALSE

\* !finalText.trim()
IsBlank(text) == Trim(text) = <<>>

\* "if (isRecording && recognitionInstanceRef.current)" of handleSubmit
AbortsOnSubmit(b, r) == b.isRecording /\ r.st # "none"

\* the Submit button of Tom's box; an accepted answer goes to
\* onAnswerComplete = handleStudentAComplete
handleSubmit(q) ==
    /\ SubmitEnabled(q)
    /\ LET b == box[q]
           finalText == FinalText(b)
       IN IF IsBlank(finalText)
          THEN /\ box' = [box EXCEPT ![q].errorMsg = "Please say something first."]
               /\ UNCHANGED <<rec, savedAnswer, phase>>
          ELSE /\ rec' = [rec EXCEPT ![q] = IF AbortsOnSubmit(b, @) THEN Aborted(@) ELSE @]
               /\ savedAnswer' = [given |-> TRUE, text |-> Trim(finalText)]
               /\ phase' = "student_b_turn"
               /\ UNCHANGED box
    /\ UNCHANGED <<currentQuestionIdx, heard>>
    /\ boxFrame

\* "Start Answering": handleExaminerDone, seen from the box
ExaminerDone ==
    /\ phase = "examiner_speaking"
    /\ phase' = "student_a_turn"
    /\ UNCHANGED <<currentQuestionIdx, boxVars>>
    /\ boxFrame

\* the session moves to question idx / phase ph: boxes are keyed by the
\* question id, the evaluating view renders none
MoveTo(idx, ph) ==
    /\ currentQuestionIdx' = idx
    /\ phase' = ph
    /\ box' = Remounted(idx, ph)
    /\ rec' = RecognitionAfterRemount(idx, ph)
    /\ heard' = IF idx = currentQuestionIdx THEN heard ELSE <<>>
    /\ savedAnswer' = IF idx = currentQuestionIdx THEN savedAnswer ELSE Unanswered
    /\ boxFrame

\* Bella's box delivers her answer (in her turn, or in manual mode whenever
\* her box shows the Submit button): handleStudentBComplete
BellaCompletes ==
    /\ phase \in ActivePhases
    /\ phase = "student_b_turn" \/ ~recSupported
    /\ IF currentQuestionIdx < numQuestions - 1
       THEN MoveTo(currentQuestionIdx + 1, "examiner_speaking")
       ELSE MoveTo(currentQuestionIdx, "evaluating")

\* "Finish Test Now", confirmed: handleEarlyFinish
EarlyFinish ==
    /\ phase \in ActivePhases
    /\ MoveTo(currentQuestionIdx, "evaluating")

\* ------------------------------------------------------ specification --
\* TestSession and the player module right after construction
SessionInit ==
    /\ numQuestions \in 1..MaxQuestions
    /\ currentQuestionIdx = 0
    /\ phase = "examiner_speaking"
    /\ answersA = EmptyAnswers
    /\ answersB = EmptyAnswers
    /\ isTTSLoading = FALSE
    /\ autoplayBlocked = FALSE
    /\ report = "null"
    /\ isFinishing = FALSE
    /\ confirmExit = FALSE
    /\ autoTimer = TRUE
    /\ exitTimers = 0
    /\ recSupported \in BOOLEAN
    /\ synthSupported \in BOOLEAN
    /\ isManualMode = MountManualMode
    /\ latestTtsRequestId = 0
    /\ currentAudio = 0
    /\ audioCache = {}
    /\ reqs = [i \in ReqIds |-> IdleReq]
    /\ lastReturn = NoReturn
    /\ playing = {}
    /\ speaking = FALSE
    /\ evalCalls = <<>>
    /\ evalPending = FALSE
    /\ synthCalls = [t \in QIdx |-> 0]

Init == SessionInit /\ pauseThrows = FALSE /\ responseIsNull = FALSE /\ NoBoxes /\ NoWav

Next ==
    \/ AutoPlay
    \/ handleManualPlay
    \/ Replay
    \/ StopAudioButton
    \/ handleExaminerDone
    \/ \E s \in Students : SetManualMode(s)
    \/ \E t \in Texts : handleStudentAComplete(t)
    \/ \E t \in Texts : handleStudentBComplete(t)
    \/ handleEarlyFinish
    \/ ConfirmWindowElapses
    \/ \E ok \in BOOLEAN : EvaluationSettles(ok)
    \/ \E id \in ReqIds : SynthesisReturns(id)
    \/ \E id \in ReqIds : SynthesisFails(id)
    \/ \E id \in ReqIds : PlaybackSettles(id)
    \/ \E id \in ReqIds : AudioEnds(id)
    \/ UtteranceEnds

Spec == Init /\ [][Next]_vars

TypeOK ==
    /\ numQuestions \in 1..MaxQuestions
    /\ currentQuestionIdx \in QIdx
    /\ phase \in Phases
    /\ answersA \in [QIdx -> Texts \cup {NoAnswer}]
    /\ answersB \in [QIdx -> Texts \cup {NoAnswer}]
    /\ exitTimers \in 0..1
    /\ currentAudio \in 0..MaxRequests
    /\ playing \subseteq ReqIds
    /\ latestTtsRequestId \in 0..MaxRequests

\* evaluateSession settles whenever it has been invoked (no timeout is
\* imposed, the call is assumed to settle)
LiveSpec == Spec /\ WF_vars(\E ok \in BOOLEAN : EvaluationSettles(ok))

\* a pending play call: awaiting the remote synthesis or audio.play()
PlayPending == \E id \in ReqIds : reqs[id].pc \in {"fetch", "play"}

\* the evaluation response may be any JSON text, the text null included
AnyResponseInit ==
    SessionInit /\ pauseThrows = FALSE /\ responseIsNull \in BOOLEAN /\ NoBoxes /\ NoWav

AnyResponseSpec == AnyResponseInit /\ [][Next]_vars

\* every awaited call settles: the remote synthesis (with audio or with an
\* error), the audio.play() promise and the evaluation
\* a browser that offers speech recognition: the boxes mount in voice mode
ProgressInit == Init /\ recSupported

ProgressSpec ==
    /\ ProgressInit /\ [][Next]_vars
    /\ WF_vars(\E ok \in BOOLEAN : EvaluationSettles(ok))
    /\ \A id \in ReqIds : WF_vars(SynthesisReturns(id) \/ SynthesisFails(id))
    /\ \A id \in ReqIds : WF_vars(PlaybackSettles(id))

\* ------------------------------------------- Tom's answer box in detail --
\* the first question is up and Tom's box for it has mounted
BoxInit ==
    /\ SessionInit
    /\ synthSupported
    /\ pauseThrows = FALSE
    /\ responseIsNull = FALSE
    /\ NoWav
    /\ box = [q \in QIdx |-> IF q = 0 THEN MountedBox ELSE FreshBox]
    /\ rec = [q \in QIdx |-> NoRecognition]
    /\ heard = <<>>
    /\ savedAnswer = Unanswered

BoxNext ==
    \/ ExaminerDone
    \/ BellaCompletes
    \/ EarlyFinish
    \/ \E q \in QIdx : handleMicClick(q)
    \/ \E q \in QIdx : ToggleInputMode(q)
    \/ \E q \in QIdx : \E text \in Typeable(q) : TypeAnswer(q, text)
    \/ \E q \in QIdx : handleSubmit(q)
    \/ \E q \in QIdx : EngineStarts(q)
    \/ \E q \in QIdx : EngineResult(q)
    \/ \E q \in QIdx : \E code \in ErrorCodes : EngineError(q, code)
    \/ \E q \in QIdx : EngineEnds(q)

BoxSpec == BoxInit /\ [][BoxNext]_vars

BoxTypeOK ==
    /\ \A q \in QIdx :
          /\ box[q].life \in {"unborn", "mounted", "unmounted"}
          /\ rec[q].st \in {"none", "idle", "starting", "listening", "stopping", "aborting", "drained", "failed"}
          /\ rec[q].n \in 0..MaxSegments
          /\ Len(rec[q].results) <= MaxResults
    /\ Len(heard) <= MaxSegments
    /\ phase \in Phases
    /\ currentQuestionIdx \in QIdx

\* ------------------------------------- a media handle that may fail --
\* the session on a platform whose media handle may throw on pause()
FaultyInit == SessionInit /\ pauseThrows \in BOOLEAN /\ responseIsNull = FALSE /\ NoBoxes /\ NoWav

FaultySpec == FaultyInit /\ [][Next]_vars

\* ------------------------------------------- the container in isolation --
wavFrame == UNCHANGED <<sessionVars, uiVars, platformVars, playerVars, evalVars, synthCalls, boxVars>>

\* steps 3 of playTextToSpeech: createWavBlob(pcmBytes)
ConvertResponse ==
    /\ wav = <<>>
    /\ wav' = createWavBlob(pcmData)
    /\ UNCHANGED pcmData
    /\ wavFrame

\* the next synthesis response arrives with its payload
NextResponse ==
    /\ wav # <<>>
    /\ pcmData' \in Payloads
    /\ wav' = <<>>
    /\ wavFrame

WavInit ==
    /\ SessionInit
    /\ numQuestions = 1 /\ recSupported /\ synthSupported
    /\ pauseThrows = FALSE
    /\ responseIsNull = FALSE
    /\ NoBoxes
    /\ pcmData \in Payloads
    /\ wav = <<>>

WavNext == ConvertResponse \/ NextResponse

WavSpec == WavInit /\ [][WavNext]_vars

\* ---------------------------------------------------------------- C1 ---
\* C1: on a voice-capable platform, for a 1-question plan where A submits
\* "I like football" and then B submits "Me too", evaluateSession is invoked
\* exactly once and the record it receives holds both answers, B's answer to
\* the last question included.
C1_EvaluatorGetsFullRecordOnce ==
    ( /\ numQuestions = 1
      /\ recSupported
      /\ phase \in {"evaluating", "results"}
      /\ answersA[0] = "I like football"
      /\ answersB[0] = "Me too" )
    => ( /\ Len(evalCalls) = 1
         /\ evalCalls[1].record = sessionData )

\* ---------------------------------------------------------------- C2 ---
\* C2: for every question, B's answer is recorded only when A's answer to
\* that question is already recorded.
C2_TurnOrdering ==
    \A q \in QIdx : answersB[q] # NoAnswer => answersA[q] # NoAnswer

\* ---------------------------------------------------------------- C3 ---
\* C3: every change of phase or question index is one of the listed edges:
\* examiner_speaking -> student_a_turn, student_a_turn -> student_b_turn,
\* student_b_turn -> examiner_speaking with the index advanced by one, an
\* active phase -> evaluating, evaluating -> results.
C3_PhaseEdges ==
    [][ \/ phase' = phase /\ currentQuestionIdx' = currentQuestionIdx
        \/ /\ phase = "examiner_speaking" /\ phase' = "student_a_turn"
           /\ currentQuestionIdx' = currentQuestionIdx
        \/ /\ phase = "student_a_turn" /\ phase' = "student_b_turn"
           /\ currentQuestionIdx' = currentQuestionIdx
        \/ /\ phase = "student_b_turn" /\ phase' = "examiner_speaking"
           /\ currentQuestionIdx' = currentQuestionIdx + 1
        \/ /\ phase \in ActivePhases /\ phase' = "evaluating"
           /\ currentQuestionIdx' = currentQuestionIdx
        \/ /\ phase = "evaluating" /\ phase' = "results"
           /\ currentQuestionIdx' = currentQuestionIdx ]_vars

\* ---------------------------------------------------------------- C4 ---
\* C4: a play call that returns after a newer play call was issued returns
\* false, at whichever await it was suspended (stated for platforms with
\* speech recognition, where every answer is submitted in turn).
C4_StaleCallReturnsFalse ==
    (recSupported /\ lastReturn.stale) => lastReturn.ret = "false"

\* ---------------------------------------------------------------- C5 ---
\* C5: while the latest play request is unresolved the loading flag is set
\* and the autoplay-blocked flag is clear: no older call's return touches
\* them.
C5_LatestOwnsLoadingUI ==
    (latestTtsRequestId > 0 /\ reqs[latestTtsRequestId].pc \in {"fetch", "play"})
    => (isTTSLoading /\ ~autoplayBlocked)

\* ---------------------------------------------------------------- C6 ---
\* C6: at most one audio source is active: only the held element can be
\* playing, and never an element together with the fallback voice.
C6_AtMostOneActivePlayback ==
    /\ Cardinality(playing) + (IF speaking THEN 1 ELSE 0) <= 1
    /\ playing \subseteq {currentAudio}

\* request 2 started its element while request 1 still awaits its own
\* playback start
C6_Witness ==
    /\ playing = {2}
    /\ reqs[1].pc = "play"

\* ---------------------------------------------------------------- C7 ---
\* C7: an answer, once written, is never changed or removed, and the only
\* key ever written is the id of the current question, a question of the
\* plan.
C7_RecordOnlyGrows ==
    [][ \A q \in QIdx :
          /\ answersA[q] # NoAnswer => answersA'[q] = answersA[q]
          /\ answersB[q] # NoAnswer => answersB'[q] = answersB[q]
          /\ (answersA'[q] # answersA[q] \/ answersB'[q] # answersB[q])
             => (q = currentQuestionIdx /\ q < numQuestions) ]_vars

\* both participants answered question 0 and A answered question 1
C7_Witness ==
    /\ currentQuestionIdx = 1
    /\ answersA[0] # NoAnswer /\ answersB[0] # NoAnswer
    /\ answersA[1] # NoAnswer

\* ---------------------------------------------------------------- C8 ---
\* C8: once the phase is evaluating it becomes results, with a report set,
\* whether the evaluation succeeds or fails; from evaluating the phase goes
\* nowhere else.
C8_EvaluatingLeadsToResults ==
    /\ (phase = "evaluating") ~> (phase = "results" /\ report # "null")
    /\ [][phase = "evaluating" => phase' \in {"evaluating", "results"}]_vars

\* the evaluation failed and the fallback report is shown
C8_Witness ==
    /\ phase = "results"
    /\ report = "fallback"

\* ---------------------------------------------------------------- C9 ---
\* C9: a press of the early-finish control while disarmed only arms the
\* confirmation window (phase, index, record and evaluator untouched); a
\* press while armed moves to evaluating; the elapsed window disarms; no
\* active phase is left for evaluating by a single press; while armed in an
\* active phase the disarming timer is pending.
C9_EarlyFinishTwoPresses ==
    /\ [][ /\ (handleEarlyFinish /\ ~confirmExit)
              => /\ confirmExit' /\ exitTimers' = exitTimers + 1
                 /\ UNCHANGED <<phase, currentQuestionIdx, answersA, answersB, evalCalls>>
           /\ (handleEarlyFinish /\ confirmExit) => phase' = "evaluating"
           /\ (phase \in ActivePhases /\ phase' = "evaluating" /\ answersB' = answersB)
              => confirmExit
           /\ exitTimers' < exitTimers => ~confirmExit'
           /\ isFinishing => evalCalls' = evalCalls ]_vars
    /\ [](confirmExit /\ phase \in ActivePhases => exitTimers = 1)

\* the second press came inside the window: the session is being evaluated
\* and the window's timer is still pending
C9_Witness ==
    /\ phase = "evaluating"
    /\ evalCalls[Len(evalCalls)].via = "earlyFinish"
    /\ confirmExit /\ exitTimers = 1

\* --------------------------------------------------------------- C10 ---
\* C10: the record handed to the evaluator by a confirmed early finish is
\* exactly the answers submitted so far (unanswered questions absent), and
\* the session is then in evaluating or results, never again in a turn.
C10_EarlyFinishRecord ==
    \A k \in 1..Len(evalCalls) :
        evalCalls[k].via = "earlyFinish"
        => /\ evalCalls[k].record = sessionData
           /\ phase \in {"evaluating", "results"}

\* early finish with only question 0 answered by both, question 1 pending
C10_Witness ==
    /\ numQuestions > 1
    /\ currentQuestionIdx = 1
    /\ Len(evalCalls) = 1
    /\ evalCalls[1].via = "earlyFinish"
    /\ Keys(evalCalls[1].record.answersA) = {0}
    /\ Keys(evalCalls[1].record.answersB) = {0}

\* --------------------------------------------------------------- C18 ---
\* C18 as stated: for every text, however often play is called with it, at
\* most one remote synthesis call is made.
C18_OneRemoteCallPerText ==
    \A t \in QIdx : synthCalls[t] <= 1

\* C18 amended: a play call makes a remote synthesis call exactly when its
\* text is not in the cache at the time of the call; once a text is cached,
\* no further remote call is made for it and a call with it goes straight to
\* playback of the cached resource.
C18_CachedTextNotRefetched ==
    [][ /\ \A t \in QIdx : t \in audioCache => synthCalls'[t] = synthCalls[t]
        /\ \A id \in ReqIds :
              (reqs[id].pc = "idle" /\ reqs'[id].pc # "idle") =>
                 IF reqs'[id].text \in audioCache
                 THEN reqs'[id].pc = "play" /\ currentAudio' = id /\ synthCalls' = synthCalls
                 ELSE /\ reqs'[id].pc = "fetch"
                      /\ synthCalls' = [synthCalls EXCEPT ![reqs'[id].text] = @ + 1] ]_vars

\* a second call with the first call's text found it cached
C18_Witness ==
    /\ 0 \in audioCache
    /\ synthCalls[0] = 1 /\ synthCalls[1] = 0
    /\ latestTtsRequestId = 2
    /\ reqs[2].pc = "play" /\ reqs[2].text = 0

\* --------------------------------------------------------------- C19 ---
\* the call of request id leaves its remote synthesis call without playing
FetchEndsWithoutAudio(id) == reqs[id].pc = "fetch" /\ reqs'[id].pc = "done"

\* C19 as stated: when the synthesis call of the latest request fails, the
\* current audio is stopped and the fallback voice is asked to speak (play
\* returns true, or false if the voice fails to start); a request that is no
\* longer the latest leaves the player alone and returns false; play always
\* returns a value.
C19_FallbackOnFailure ==
    [][ \A id \in ReqIds : FetchEndsWithoutAudio(id) =>
          /\ lastReturn'.id = id /\ lastReturn'.ret \in {"true", "false"}
          /\ IF IsStale(id)
             THEN lastReturn'.ret = "false" /\ UNCHANGED <<currentAudio, playing, speaking>>
             ELSE /\ playing' = {}
                  /\ lastReturn'.ret = (IF speaking' THEN "true" ELSE "false") ]_vars

\* C19 amended: as stated where the platform offers a fallback voice; where
\* it offers none, play returns false and leaves the current audio alone.
C19_FallbackWhereOffered ==
    [][ \A id \in ReqIds : FetchEndsWithoutAudio(id) =>
          /\ lastReturn'.id = id /\ lastReturn'.ret \in {"true", "false"}
          /\ IF IsStale(id) \/ ~synthSupported
             THEN lastReturn'.ret = "false" /\ UNCHANGED <<currentAudio, playing, speaking>>
             ELSE /\ playing' = {}
                  /\ lastReturn'.ret = (IF speaking' THEN "true" ELSE "false") ]_vars

\* the fallback voice speaks for the latest request, nothing else is heard
C19_Witness ==
    /\ speaking /\ playing = {}
    /\ lastReturn.ret = "true" /\ ~lastReturn.stale
    /\ lastReturn.id = latestTtsRequestId

\* --------------------------------------------------------------- C20 ---
\* C20: when the start of playback is rejected, play returns false; the
\* automatic prompt then sets autoplayBlocked with the loading flag cleared,
\* so that "Tap to Play" is shown; the return neither issues a play request
\* nor arms the auto-play timer, the timer is only armed by a change of phase
\* or question, and while it is not armed every play request comes from a
\* button.
C20_RejectedStartOffersTap ==
    [][ /\ \A id \in ReqIds :
              (reqs[id].pc = "play" /\ reqs'[id].pc = "done" /\ id \notin playing) =>
                 /\ lastReturn'.id = id /\ lastReturn'.ret = "false"
                 /\ reqs[id].caller = "auto" => autoplayBlocked' /\ ~isTTSLoading'
                 /\ latestTtsRequestId' = latestTtsRequestId
                 /\ autoTimer' = autoTimer
        /\ (autoTimer' /\ ~autoTimer) =>
              (phase' # phase \/ currentQuestionIdx' # currentQuestionIdx)
        /\ (latestTtsRequestId' # latestTtsRequestId /\ ~autoTimer) =>
              reqs'[latestTtsRequestId'].caller = "button" ]_vars

\* the first automatic prompt was refused: "Tap to Play" is on offer
C20_Witness ==
    /\ latestTtsRequestId = 1 /\ lastReturn.id = 1
    /\ lastReturn.ret = "false" /\ ~lastReturn.stale
    /\ currentAudio = 1 /\ 1 \notin playing
    /\ autoplayBlocked /\ ~isTTSLoading /\ ~autoTimer
    /\ phase = "examiner_speaking"

\* --------------------------------------------------------------- C11 ---
\* the segments, separated by single spaces
RECURSIVE SpaceJoin(_)
SpaceJoin(segments) ==
    IF segments = <<>> THEN <<>>
    ELSE IF Len(segments) = 1 THEN segments
    ELSE <<Head(segments), Space>> \o SpaceJoin(Tail(segments))

\* the words a string is made of
WordsOf(str) == {str[i] : i \in 1..Len(str)} \ {Space}

\* C11: a submit in voice mode delivers the final segments heard so far, in
\* order, followed by the pending interim text, separated by single spaces
\* and trimmed, in whatever batches the final segments were reported.
C11_SubmitDeliversTranscript ==
    [][ \A q \in QIdx :
          ( /\ q = currentQuestionIdx
            /\ ~savedAnswer.given /\ savedAnswer'.given
            /\ ~box[q].isManualMode )
          => savedAnswer'.text = Trim(SpaceJoin(heard) \o <<Space>> \o box[q].interimTranscript) ]_vars

\* --------------------------------------------------------------- C12 ---
\* C12: while Tom has not answered, the cumulative final transcript of his
\* box is the space-joined sequence of the final segments reported so far,
\* each of them once, and the interim preview holds the segments of the
\* latest batch that are not final.
C12_CumulativeFinalTranscript ==
    \A q \in QIdx :
        (q = currentQuestionIdx /\ isMountedRef(q) /\ ~hasAnswered) =>
            /\ box[q].fullTranscriptRef = SpaceJoin(heard)
            /\ box[q].isRecording /\ rec[q].st = "listening" =>
                  box[q].interimTranscript = Collect(rec[q].results, FALSE)

\* --------------------------------------------------------------- C13 ---
\* C13: a submit whose text is empty or whitespace sets the error message
\* and writes no answer, the phase and the question stay, and Submit can be
\* pressed again; an answer that is recorded is never blank.
C13_BlankSubmitRejected ==
    [][ /\ \A q \in QIdx :
              (handleSubmit(q) /\ Trim(FinalText(box[q])) = <<>>) =>
                 /\ box'[q].errorMsg = "Please say something first."
                 /\ savedAnswer' = savedAnswer
                 /\ phase' = phase /\ currentQuestionIdx' = currentQuestionIdx
                 /\ box'[q].life = "mounted" /\ ~savedAnswer'.given
                 /\ box'[q].isManualMode = box[q].isManualMode
                 /\ box'[q].manualText = box[q].manualText
        /\ savedAnswer'.given => WordsOf(savedAnswer'.text) # {} ]_vars

\* a blank submit was turned down and Tom can try again
C13_Witness ==
    \E q \in QIdx :
        /\ q = currentQuestionIdx /\ SubmitEnabled(q)
        /\ box[q].errorMsg = "Please say something first."
        /\ box[q].manualText = <<Space>>

\* --------------------------------------------------------------- C14 ---
\* C14: once Tom's answer to the current question is recorded, the engine of
\* his box holds no listening pass, in whatever order start request, start
\* signal, end signal and submit came.
C14_NoSessionAfterSubmit ==
    hasAnswered => ~Running(rec[currentQuestionIdx])

\* --------------------------------------------------------------- C15 ---
\* C15: an engine callback that arrives after the box was torn down changes
\* nothing of the box (transcript, interim preview, error message, listening
\* flag), and once an answer is recorded for the current question no step
\* but the move to another question changes it.
C15_LateCallbacksIgnored ==
    [][ /\ \A q \in QIdx : box[q].life = "unmounted" => box'[q] = box[q]
        /\ (savedAnswer.given /\ savedAnswer' # savedAnswer) =>
              currentQuestionIdx' # currentQuestionIdx ]_vars

\* the engine of a torn-down box has delivered a late callback
C15_Witness ==
    \E q \in QIdx :
        /\ box[q].life = "unmounted"
        /\ rec[q].st \in {"drained", "failed"}

\* --------------------------------------------------------------- C16 ---
\* the status message a box shows right after it mounted
MountMessage == IF recSupported THEN "null" ELSE "Voice not supported. Manual mode."

C17_ErrorClassification ==
    [][ \A q \in QIdx : \A code \in ErrorCodes :
          (EngineError(q, code) /\ isMountedRef(q)) =>
             /\ ~box'[q].isRecording
             /\ box'[q].errorMsg =
                   CASE code \in {"no-speech", "aborted"} -> box[q].errorMsg
                     [] code = "not-allowed" -> "Mic blocked. Check settings."
                     [] code = "audio-capture" -> "No mic found."
                     [] code = "network" -> "Network error."
                     [] OTHER -> "Error: bad-grammar"
             /\ box'[q].fullTranscriptRef = box[q].fullTranscriptRef
             /\ box'[q].transcript = box[q].transcript
             /\ UNCHANGED <<phase, currentQuestionIdx, savedAnswer>> ]_vars

\* the engine refused the microphone after Tom had said something
C17_Witness ==
    \E q \in QIdx :
        /\ isMountedRef(q) /\ rec[q].st = "failed"
        /\ box[q].errorMsg = "Mic blocked. Check settings."
        /\ ~box[q].isRecording
        /\ box[q].fullTranscriptRef # <<>>

\* --------------------------------------------------------------- C23 ---
\* the unsigned integer stored little-endian in the width bytes at offset
UIntAt(bytes, offset, width) ==
    IF width = 2 THEN bytes[offset + 1] + 256 * bytes[offset + 2]
    ELSE bytes[offset + 1] + 256 * bytes[offset + 2]
         + 65536 * bytes[offset + 3] + 16777216 * bytes[offset + 4]

\* C23: the container made of N PCM bytes has 44 + N bytes; bytes 4-7 hold
\* 36 + N, bytes 40-43 hold N, bytes 22-23 hold the channel count 1, bytes
\* 24-27 hold the sample rate 24000, all little-endian; the bytes from 44 on
\* are the PCM bytes.
C23_WavHeaderExact ==
    wav # <<>> =>
        LET N == Len(pcmData) IN
        /\ Len(wav) = 44 + N
        /\ UIntAt(wav, 4, 4) = 36 + N
        /\ UIntAt(wav, 40, 4) = N
        /\ UIntAt(wav, 22, 2) = 1
        /\ UIntAt(wav, 24, 4) = 24000
        /\ SubSeq(wav, 45, Len(wav)) = pcmData

\* a payload of several bytes has been converted
C23_Witness ==
    /\ wav # <<>>
    /\ Len(pcmData) >= 2 /\ pcmData[1] = 255 /\ pcmData[2] = 1

\* --------------------------------------------------------------- C21 ---
\* C21: whenever evaluateSession is invoked (after Bella's last answer or a
\* confirmed early finish) the phase becomes evaluating and, at that moment,
\* no element is playing, none is held and the fallback voice is silent.
C21_AudioStoppedBeforeEvaluate ==
    [][ Len(evalCalls') > Len(evalCalls) =>
          /\ phase' = "evaluating"
          /\ playing' = {} /\ currentAudio' = 0 /\ ~speaking' ]_vars

\* the session was finished early while a prompt was being played: its
\* element was silenced before its play() promise settled
C21_Witness ==
    /\ phase = "evaluating" /\ evalPending
    /\ evalCalls[1].via = "earlyFinish"
    /\ playing = {} /\ currentAudio = 0
    /\ \E id \in ReqIds : reqs[id].pc = "play" /\ id = latestTtsRequestId

\* --------------------------------------------------------------- C22 ---
\* C22: every entry into examiner_speaking for a question arms the settle
\* timer and leaves the autoplay-blocked and the loading flag cleared; an
\* automatic play request is issued only when that timer fires, in
\* examiner_speaking, with the text of the current question.
C22_EntryResetsAndPlays ==
    [][ /\ ( /\ phase' = "examiner_speaking"
             /\ phase # "examiner_speaking" \/ currentQuestionIdx' # currentQuestionIdx )
           => autoTimer' /\ ~autoplayBlocked' /\ ~isTTSLoading'
        /\ ( /\ latestTtsRequestId' # latestTtsRequestId
             /\ reqs'[latestTtsRequestId'].caller = "auto" )
           => /\ autoTimer /\ ~autoTimer'
              /\ phase = "examiner_speaking"
              /\ reqs'[latestTtsRequestId'].text = currentQuestionIdx ]_vars

\* --------------------------------------------------------------- C24 ---
\* C24: stopAllAudio always returns; when it has returned, isAudioPlaying()
\* is false and the fallback voice is silent, also on a platform whose media
\* handle throws on pause(); when nothing was playing it changes nothing
\* that can be heard.
C24_StopAllAlwaysSilences ==
    [][ StopAudioButton =>
          /\ ~(currentAudio' # 0 /\ currentAudio' \in playing')
          /\ ~speaking'
          /\ (~isAudioPlaying /\ ~speaking) => (playing' = playing /\ speaking' = speaking) ]_vars

\* --------------------------------------------------------------- C25 ---
\* C25: a submit in manual mode delivers the trimmed typed buffer, whatever
\* final transcript and interim text recognition has left in the box; a
\* blank buffer gets the empty-answer message and nothing is recorded.
C25_ManualSubmitUsesBuffer ==
    [][ \A q \in QIdx :
          (handleSubmit(q) /\ box[q].isManualMode) =>
             IF WordsOf(box[q].manualText) = {}
             THEN /\ box'[q].errorMsg = "Please say something first."
                  /\ savedAnswer' = savedAnswer
             ELSE savedAnswer' = [given |-> TRUE, text |-> Trim(box[q].manualText)] ]_vars

\* Tom typed his answer after recognition had left a transcript and an
\* interim text in his box
C25_Witness ==
    \E q \in QIdx :
        /\ q = currentQuestionIdx /\ box[q].isManualMode
        /\ box[q].fullTranscriptRef # <<>> /\ box[q].interimTranscript # <<>>
        /\ savedAnswer = [given |-> TRUE, text |-> <<Word(q, 4)>>]

\* --------------------------------------------------------------- C27 ---
\* the microphone button is pressed and recognition.start() throws
StartFails(q) ==
    /\ handleMicClick(q)
    /\ ~box[q].isRecording /\ recSupported
    /\ StartThrows(rec[q]) /\ rec[q].st # "none"

\* C27: without the recognition capability the box is in manual mode from
\* its mount on, has no engine and never reports listening; when start()
\* throws, the box switches to manual mode with listening off, the phase
\* stays, Submit is available, and listening is not reported afterwards.
C27_ManualModeInsteadOfFailure ==
    [][ \A q \in QIdx :
          /\ ~recSupported =>
                /\ ~box'[q].isRecording /\ rec'[q].st = "none"
                /\ (box[q].life = "unborn" /\ box'[q].life = "mounted") => box'[q].isManualMode
          /\ StartFails(q) =>
                /\ box'[q].isManualMode /\ ~box'[q].isRecording
                /\ phase' = phase /\ currentQuestionIdx' = currentQuestionIdx
                /\ box'[q].errorMsg = "Device error. Switched to manual."
          /\ box[q].errorMsg = "Device error. Switched to manual." => ~box'[q].isRecording ]_vars

\* --------------------------------------------------------------- C30 ---
\* str begins with prefix
IsPrefix(prefix, str) ==
    Len(prefix) <= Len(str) /\ SubSeq(str, 1, Len(prefix)) = prefix

\* C30: while a box is mounted its cumulative final transcript only grows
\* at its end; a stop request changes nothing in the box; the listening
\* flag goes off only with the engine's end or error signal; starting a
\* listening pass empties the interim preview and keeps the transcript.
C30_TranscriptOnlyGrows ==
    [][ \A q \in QIdx :
          /\ (isMountedRef(q) /\ box'[q].life = "mounted") =>
                /\ IsPrefix(box[q].fullTranscriptRef, box'[q].fullTranscriptRef)
                /\ IsPrefix(box[q].transcript, box'[q].transcript)
          /\ (handleMicClick(q) /\ box[q].isRecording) => box'[q] = box[q]
          /\ (box[q].isRecording /\ ~box'[q].isRecording /\ box'[q].life = "mounted") =>
                rec[q].st # rec'[q].st /\ rec'[q].st \in {"idle", "failed"}
          /\ (handleMicClick(q) /\ rec'[q].st = "starting") =>
                /\ box'[q].interimTranscript = <<>>
                /\ box'[q].fullTranscriptRef = box[q].fullTranscriptRef
                /\ box'[q].transcript = box[q].transcript
                /\ box'[q].manualText = box[q].manualText ]_vars

\* Tom resumes after a pass that left a final transcript
C30_Witness ==
    \E q \in QIdx :
        /\ isMountedRef(q) /\ rec[q].st = "starting"
        /\ box[q].fullTranscriptRef # <<>> /\ box[q].interimTranscript = <<>>

\* --------------------------------------------------------------- C28 ---
\* a step in which playTextToSpeech is called
PlayCalled == AutoPlay \/ handleManualPlay \/ Replay

\* the requests issued so far
Issued == {id \in ReqIds : reqs[id].pc # "idle"}

\* C28: every call takes, before anything else, an id one above the latest,
\* which no earlier call holds; the latest id never decreases and changes
\* only in a call; the issued ids are exactly 1..latest, so exactly one
\* issued request carries the latest id.
C28_RequestIdsStrictlyIncrease ==
    [][ /\ latestTtsRequestId' >= latestTtsRequestId
        /\ latestTtsRequestId' # latestTtsRequestId => PlayCalled
        /\ PlayCalled =>
              /\ latestTtsRequestId' = latestTtsRequestId + 1
              /\ latestTtsRequestId' \notin Issued
              /\ reqs'[latestTtsRequestId'].pc \in {"fetch", "play"}
              /\ \A id \in Issued : id < latestTtsRequestId' /\ reqs'[id] = reqs[id]
        /\ Issued = 1..latestTtsRequestId ]_vars

\* a second call was made while the first one was still awaiting
C28_Witness ==
    /\ latestTtsRequestId = 2
    /\ reqs[1].pc = "fetch" /\ reqs[2].pc \in {"fetch", "play"}

\* --------------------------------------------------------------- C29 ---
\* C29: the cache only grows, and it grows only in the step in which the
\* remote synthesis of a request returned audio, by the text of that
\* request, which had no entry before (no entry is ever overwritten); a
\* play call, stopAllAudio, a failed or a discarded synthesis leave it as
\* it is.
C29_CacheAppendOnly ==
    [][ /\ audioCache \subseteq audioCache'
        /\ audioCache' # audioCache =>
              \E id \in ReqIds :
                  /\ reqs[id].pc = "fetch" /\ reqs'[id].pc = "play"
                  /\ audioCache' = audioCache \cup {reqs[id].text}
        /\ \A id \in ReqIds :
              (reqs[id].pc = "fetch" /\ reqs'[id].pc = "play") =>
                  /\ reqs[id].text \notin audioCache
                  /\ reqs[id].text \in audioCache'
        /\ (PlayCalled \/ StopAudioButton \/ \E id \in ReqIds : SynthesisFails(id)) =>
              audioCache' = audioCache ]_vars

\* a cached prompt is still cached after a later play call has come and
\* gone and nothing plays any more
C29_Witness ==
    /\ audioCache # {}
    /\ latestTtsRequestId = 2 /\ reqs[2].pc = "done"
    /\ reqs[1].pc # "fetch"
    /\ lastReturn.id = 2 /\ ~lastReturn.stale
    /\ playing = {} /\ currentAudio = 0

\* --------------------------------------------------------------- C26 ---
\* the "Tap to Play Question" button is shown
TapToPlayShown == ~isTTSLoading /\ autoplayBlocked

\* some control or pending completion moves the session on
CanProgress ==
    /\ phase \in ActivePhases => ENABLED handleEarlyFinish
    /\ phase = "examiner_speaking" =>
          ENABLED handleExaminerDone \/ TapToPlayShown \/ PlayPending
    /\ phase = "student_a_turn" => ENABLED (\E t \in Texts : handleStudentAComplete(t))
    /\ phase = "student_b_turn" => ENABLED (\E t \in Texts : handleStudentBComplete(t))
    /\ phase = "evaluating" => ENABLED (\E ok \in BOOLEAN : EvaluationSettles(ok))

\* results can be reached from here in at most three steps: arm, confirm,
\* evaluation settles
ResultsReachable ==
    /\ (phase \in ActivePhases /\ ~confirmExit) =>
          ENABLED (handleEarlyFinish /\ confirmExit' /\ phase' = phase)
    /\ (phase \in ActivePhases /\ confirmExit) =>
          ENABLED (handleEarlyFinish /\ phase' = "evaluating")
    /\ phase = "evaluating" =>
          ENABLED (\E ok \in BOOLEAN : EvaluationSettles(ok) /\ phase' = "results")

\* C26: in every state before the results some control or pending
\* completion moves the session on; the loading flag is set only while a
\* play call is pending, so it is cleared once the last one has settled,
\* which happens; the results can always still be reached.
C26_NeverStuck ==
    /\ [](phase # "results" => CanProgress)
    /\ [](isTTSLoading => PlayPending)
    /\ isTTSLoading ~> ~isTTSLoading
    /\ []ResultsReachable

\* two play calls have settled in a student's turn and the loading flag is
\* clear
C26_Witness ==
    /\ phase \in {"student_a_turn", "student_b_turn"}
    /\ latestTtsRequestId = 2 /\ ~PlayPending
    /\ ~isTTSLoading

\* --------------------------------------------------------------- C31 ---
\* C31: while the phase is evaluating or results (entered through
\* stopAllAudio) no playback and no fallback utterance begins; stated for
\* a browser with speech recognition, where every submit is in turn.
C31_NoAudioAfterStopAll ==
    [][ (recSupported /\ phase' \in {"evaluating", "results"}) =>
          /\ playing' \subseteq playing
          /\ speaking' => speaking ]_vars

\* --------------------------------------------------------------- C32 ---
\* C32: whenever the phase is results a report is present; stated for a
\* browser with speech recognition, where every submit is in turn.
C32_ResultsHaveReport == (recSupported /\ phase = "results") => report # "null"

\* --------------------------------------------------------------- C33 ---
\* the record of the evaluation requested last
LastRecord == evalCalls[Len(evalCalls)].record

\* C33: the record handed to evaluateSession holds every answer submitted
\* in the session, the one submitted in the same step included; the fixed
\* "no answers" report is returned exactly when that record is empty, and
\* then no answer was submitted at all.
C33_RemoteCallIffAnswers ==
    [][ /\ Len(evalCalls') > Len(evalCalls) =>
              /\ evalCalls'[Len(evalCalls')].record.answersA = answersA'
              /\ evalCalls'[Len(evalCalls')].record.answersB = answersB'
        /\ (evalPending /\ ~evalPending') =>
              /\ report' = "noanswers" <=> ~NeedsRemoteCall(LastRecord)
              /\ report' = "noanswers" => (Keys(answersA) = {} /\ Keys(answersB) = {}) ]_vars

\* --------------------------------------------------------------- C34 ---
\* C34: the question index stays within the plan and every question below
\* it has Bella's answer; the index changes only by +1, in the step in
\* which Bella submits in her turn while another question remains, and that
\* step leads to examiner_speaking.
C34_IndexAdvancesOnBellaSubmit ==
    /\ [](/\ currentQuestionIdx \in 0..(numQuestions - 1)
          /\ \A q \in 0..(currentQuestionIdx - 1) : answersB[q] # NoAnswer)
    /\ [][ currentQuestionIdx' # currentQuestionIdx =>
             /\ currentQuestionIdx' = currentQuestionIdx + 1
             /\ currentQuestionIdx < numQuestions - 1
             /\ phase = "student_b_turn" /\ phase' = "examiner_speaking"
             /\ answersB[currentQuestionIdx] = NoAnswer
             /\ answersB'[currentQuestionIdx] # NoAnswer ]_vars

====
